---- MODULE Spec2Model ----
(***************************************************************************)
(* A model of the lazy-evaluation notebook (src/lazy_evaluation.ipynb).    *)
(*                                                                         *)
(* The notebook builds iterator objects (list iterators, zip, chain,       *)
(* islice, generators, map, filter, count, cycle) and then pulls from them *)
(* with next(), list() and for loops, in some cells after mutating the     *)
(* list an iterator reads.  The model keeps the iterator objects in a heap *)
(* (a sequence of records, an object's id being its index), the mutable    *)
(* lists in `lists`, and runs the iterator protocol one __next__ at a      *)
(* time: PyNext(h, L, id, rnd) is one call of next() on object id, giving  *)
(* the heap after the call and <<v>> for a returned value v or <<>> for    *)
(* StopIteration.                                                          *)
(*                                                                         *)
(* Strings that str.upper, `'A' in x` and len() act on are sequences of    *)
(* one-character strings.  The values of count(start=0, step=0.25) are     *)
(* multiples of one quarter (exact in binary floating point) and are held  *)
(* as the integer number of quarters.                                      *)
(***************************************************************************)
EXTENDS Integers, Sequences, FiniteSets, TLC

VARIABLES
    cell,     \* which notebook cell group is running
    args,     \* the arguments the cell's objects were constructed from
    lists,    \* the mutable lists, by variable name
    heap,     \* the iterator objects; an object's id is its index
    top,      \* the object the cell's next() / list() calls act on
    out,      \* one entry per print(next(x)) executed so far
    pc,       \* "idle", or "draining" while a list() / for loop runs
    acc,      \* the list a running list() call has built so far
    results   \* the lists returned by the completed list() calls

vars == <<cell, args, lists, heap, top, out, pc, acc, results>>

\* ------------------------------------------------------------- bounds

MaxLen == 3      \* longest list of names
MaxNums == 5     \* longest list of numbers given to islice
MaxStop == 5     \* largest islice stop
MaxN == 3        \* largest n of generate_coin_toss(n)
MaxCalls == 5    \* print(next(x)) statements executed in one run
MaxLists == 2    \* list() calls completed in one run
MaxPull == 6     \* values one list() call pulls before the run is cut off
MaxK == 3        \* largest k of islice(x, 0, k) over count / cycle
MaxMutations == 1  \* list elements assigned to in one run

\* --------------------------------------------------------------- data

Sarah == <<"S", "a", "r", "a", "h">>
Matt == <<"M", "a", "t", "t">>
Jim == <<"J", "i", "m">>
Denise == <<"D", "e", "n", "i", "s", "e">>
Kate == <<"K", "a", "t", "e">>
Names == <<Sarah, Matt, Jim, Denise, Kate>>
Robot == <<"R", "o", "b", "o", "t">>
Weekdays == <<"Monday", "Tuesday", "Wednesday", "Thursday", "Friday">>
Coin == {"H", "T"}
Mutated999 == 999

LowerCase == <<"a", "b", "c", "d", "e", "f", "g", "h", "i", "j", "k", "l", "m",
               "n", "o", "p", "q", "r", "s", "t", "u", "v", "w", "x", "y", "z">>
UpperCase == <<"A", "B", "C", "D", "E", "F", "G", "H", "I", "J", "K", "L", "M",
               "N", "O", "P", "Q", "R", "S", "T", "U", "V", "W", "X", "Y", "Z">>

Min(a, b) == IF a <= b THEN a ELSE b

Take(s, n) == SubSeq(s, 1, Min(n, Len(s)))

\* Every sequence over the elements of pool, of length at most n.
SeqsUpTo(pool, n) == UNION {[1..k -> pool] : k \in 0..n}

\* Every ordering of s (random.shuffle).
Shuffles(s) ==
    {p \in [1..Len(s) -> {s[k] : k \in 1..Len(s)}] :
        \A k \in 1..Len(s) : \E j \in 1..Len(s) : p[j] = s[k]}

\* ------------------------------------------------- str.upper, lambdas

UpperChar(c) ==
    IF \E k \in 1..Len(LowerCase) : LowerCase[k] = c
    THEN UpperCase[CHOOSE k \in 1..Len(LowerCase) : LowerCase[k] = c]
    ELSE c

\* str.upper
StrUpper(x) == [k \in 1..Len(x) |-> UpperChar(x[k])]

\* lambda x: 'A' in x
HasA(x) == \E k \in 1..Len(x) : x[k] = "A"

\* lambda x: len(x) == 4
LenIs4(x) == Len(x) = 4

Apply(f, v) == IF f = "upper" THEN StrUpper(v) ELSE v

Holds(f, v) == IF f = "hasA" THEN HasA(v) ELSE LenIs4(v)

\* ---------------------------------------------------- iterator objects

\* Every object has the same fields; a kind uses the ones it needs.
\*   src    the name of the list a list iterator reads
\*   p, q   the ids of the iterators the object pulls from
\*   i      list iterator: index of the next element; islice: values pulled
\*          from p (cnt); generator: iterations done; count: the next value;
\*          cycle: index into saved; chain: which input is active (1, 2)
\*   nxt    islice: the position of the next value to return
\*   stop   islice: stop; generator: n
\*   step   islice, count: step
\*   live   FALSE once the object has dropped its input: a list iterator,
\*          generator, chain or islice that is exhausted, or a cycle that
\*          has finished its first pass
\*   saved  cycle: the values seen on the first pass
\*   f      map: the function; filter: the predicate
Obj == [kind |-> "", src |-> "", p |-> 0, q |-> 0, i |-> 0, nxt |-> 0,
        stop |-> 0, step |-> 0, live |-> TRUE, saved |-> <<>>, f |-> ""]

ListIter(name) == [Obj EXCEPT !.kind = "listiter", !.src = name]
ZipOf(a, b) == [Obj EXCEPT !.kind = "zip", !.p = a, !.q = b]
ChainOf(a, b) == [Obj EXCEPT !.kind = "chain", !.p = a, !.q = b, !.i = 1]
IsliceOf(a, start, stop) ==
    [Obj EXCEPT !.kind = "islice", !.p = a, !.nxt = start, !.stop = stop,
                !.step = 1]
GenOf(n) == [Obj EXCEPT !.kind = "gen", !.stop = n]
MapOf(fn, a) == [Obj EXCEPT !.kind = "map", !.f = fn, !.p = a]
FilterOf(pred, a) == [Obj EXCEPT !.kind = "filter", !.f = pred, !.p = a]
CountOf(start, step) == [Obj EXCEPT !.kind = "count", !.i = start, !.step = step]
CycleOf(a) == [Obj EXCEPT !.kind = "cycle", !.p = a]

Stop(h) == [h |-> h, r |-> <<>>]
Yield(h, v) == [h |-> h, r |-> <<v>>]

RECURSIVE PyNext(_, _, _, _)

\* Faulty variant: the iterator reads a copy of the list taken when it was
\* constructed.
ListIterNextSnapshot(h, L, id, rnd) ==
    LET it == h[id] IN
    IF ~it.live THEN Stop(h)
    ELSE IF it.i < Len(args.orig[it.src])
         THEN Yield([h EXCEPT ![id].i = it.i + 1], args.orig[it.src][it.i + 1])
         ELSE Stop([h EXCEPT ![id].live = FALSE])

\* A list iterator reads the list itself, at its index, when it is asked.
ListIterNext(h, L, id, rnd) ==
    LET it == h[id] IN
    IF ~it.live THEN Stop(h)
    ELSE IF it.i < Len(L[it.src])
         THEN Yield([h EXCEPT ![id].i = it.i + 1], L[it.src][it.i + 1])
         ELSE Stop([h EXCEPT ![id].live = FALSE])

\* Faulty variant: range(n + 1).
GenNextOffByOne(h, L, id, rnd) ==
    LET it == h[id] IN
    IF ~it.live THEN Stop(h)
    ELSE IF it.i <= it.stop
         THEN Yield([h EXCEPT ![id].i = it.i + 1], rnd)
         ELSE Stop([h EXCEPT ![id].live = FALSE])

\* Faulty variant: the generator starts over after it has signalled its end.
GenNextRestarts(h, L, id, rnd) ==
    LET it == h[id] IN
    IF it.i < it.stop
    THEN Yield([h EXCEPT ![id].i = it.i + 1], rnd)
    ELSE Stop([h EXCEPT ![id].i = 0, ![id].live = FALSE])

\* for _ in range(n): yield 'H' if random.random() > 0.5 else 'T'
GenNext(h, L, id, rnd) ==
    LET it == h[id] IN
    IF ~it.live THEN Stop(h)
    ELSE IF it.i < it.stop
         THEN Yield([h EXCEPT ![id].i = it.i + 1], rnd)
         ELSE Stop([h EXCEPT ![id].live = FALSE])

ZipNext(h, L, id, rnd) ==
    LET a == PyNext(h, L, h[id].p, rnd) IN
    IF a.r = <<>> THEN Stop(a.h)
    ELSE LET b == PyNext(a.h, L, h[id].q, rnd) IN
         IF b.r = <<>> THEN Stop(b.h)
         ELSE Yield(b.h, <<a.r[1], b.r[1]>>)

\* Faulty variant: the chain ends with its first input.
ChainNextDropsSecond(h, L, id, rnd) ==
    LET it == h[id] IN
    IF ~it.live THEN Stop(h)
    ELSE LET a == PyNext(h, L, it.p, rnd) IN
         IF a.r # <<>> THEN a
         ELSE Stop([a.h EXCEPT ![id].live = FALSE])

ChainNext(h, L, id, rnd) ==
    LET it == h[id] IN
    IF ~it.live THEN Stop(h)
    ELSE IF it.i > 2 THEN Stop([h EXCEPT ![id].live = FALSE])
    ELSE LET a == PyNext(h, L, IF it.i = 1 THEN it.p ELSE it.q, rnd) IN
         IF a.r # <<>> THEN a
         ELSE PyNext([a.h EXCEPT ![id].i = it.i + 1], L, id, rnd)

\* Faulty variant: the stop test is cnt > stop.
IsliceNextOneMore(h, L, id, rnd) ==
    LET it == h[id] IN
    IF ~it.live THEN Stop(h)
    ELSE IF it.i < it.nxt
         THEN LET a == PyNext(h, L, it.p, rnd) IN
              IF a.r = <<>> THEN Stop([a.h EXCEPT ![id].live = FALSE])
              ELSE PyNext([a.h EXCEPT ![id].i = it.i + 1], L, id, rnd)
    ELSE IF it.i > it.stop THEN Stop([h EXCEPT ![id].live = FALSE])
    ELSE LET a == PyNext(h, L, it.p, rnd) IN
         IF a.r = <<>> THEN Stop([a.h EXCEPT ![id].live = FALSE])
         ELSE Yield([a.h EXCEPT ![id].i = it.i + 1,
                                ![id].nxt = it.nxt + it.step],
                    a.r[1])

\* Faulty variant: the input is pulled before the stop test, so the value
\* at position stop is taken from the input and lost.
IsliceNextPullsFirst(h, L, id, rnd) ==
    LET it == h[id] IN
    IF ~it.live THEN Stop(h)
    ELSE LET a == PyNext(h, L, it.p, rnd) IN
         IF a.r = <<>> THEN Stop([a.h EXCEPT ![id].live = FALSE])
         ELSE IF it.i < it.nxt
              THEN PyNext([a.h EXCEPT ![id].i = it.i + 1], L, id, rnd)
         ELSE IF it.i >= it.stop THEN Stop([a.h EXCEPT ![id].live = FALSE])
         ELSE Yield([a.h EXCEPT ![id].i = it.i + 1,
                                ![id].nxt = Min(it.nxt + it.step, it.stop)],
                    a.r[1])

IsliceNext(h, L, id, rnd) ==
    LET it == h[id] IN
    IF ~it.live THEN Stop(h)
    ELSE IF it.i < it.nxt
         THEN LET a == PyNext(h, L, it.p, rnd) IN
              IF a.r = <<>> THEN Stop([a.h EXCEPT ![id].live = FALSE])
              ELSE PyNext([a.h EXCEPT ![id].i = it.i + 1], L, id, rnd)
    ELSE IF it.i >= it.stop THEN Stop([h EXCEPT ![id].live = FALSE])
    ELSE LET a == PyNext(h, L, it.p, rnd) IN
         IF a.r = <<>> THEN Stop([a.h EXCEPT ![id].live = FALSE])
         ELSE Yield([a.h EXCEPT ![id].i = it.i + 1,
                                ![id].nxt = Min(it.nxt + it.step, it.stop)],
                    a.r[1])

MapNext(h, L, id, rnd) ==
    LET a == PyNext(h, L, h[id].p, rnd) IN
    IF a.r = <<>> THEN a ELSE Yield(a.h, Apply(h[id].f, a.r[1]))

\* Faulty variant: the filter ends at the first value its predicate rejects.
FilterNextStopsAtFirst(h, L, id, rnd) ==
    LET a == PyNext(h, L, h[id].p, rnd) IN
    IF a.r = <<>> THEN a
    ELSE IF Holds(h[id].f, a.r[1]) THEN a
    ELSE Stop(a.h)

FilterNext(h, L, id, rnd) ==
    LET a == PyNext(h, L, h[id].p, rnd) IN
    IF a.r = <<>> THEN a
    ELSE IF Holds(h[id].f, a.r[1]) THEN a
    ELSE PyNext(a.h, L, id, rnd)

CountNext(h, L, id, rnd) ==
    Yield([h EXCEPT ![id].i = h[id].i + h[id].step], h[id].i)

\* Faulty variant: a new pass starts at the second saved value.
CycleNextRestartsAtOne(h, L, id, rnd) ==
    LET it == h[id]
        a == PyNext(h, L, it.p, rnd)
        replay(g) ==
            LET s == g[id].saved IN
            IF s = <<>> THEN Stop(g)
            ELSE Yield([g EXCEPT ![id].i = IF g[id].i + 1 >= Len(s)
                                            THEN Min(1, Len(s) - 1)
                                            ELSE g[id].i + 1],
                       s[g[id].i + 1])
    IN
    IF it.live
    THEN IF a.r # <<>>
         THEN Yield([a.h EXCEPT ![id].saved = Append(it.saved, a.r[1])], a.r[1])
         ELSE replay([a.h EXCEPT ![id].live = FALSE])
    ELSE replay(h)

\* Faulty variant: nothing is saved on the first pass.
CycleNextNoSave(h, L, id, rnd) ==
    LET it == h[id]
        a == PyNext(h, L, it.p, rnd)
    IN
    IF it.live
    THEN IF a.r # <<>> THEN a ELSE Stop([a.h EXCEPT ![id].live = FALSE])
    ELSE Stop(h)

CycleNext(h, L, id, rnd) ==
    LET it == h[id]
        a == PyNext(h, L, it.p, rnd)
        replay(g) ==
            LET s == g[id].saved IN
            IF s = <<>> THEN Stop(g)
            ELSE Yield([g EXCEPT ![id].i = IF g[id].i + 1 >= Len(s)
                                            THEN 0 ELSE g[id].i + 1],
                       s[g[id].i + 1])
    IN
    IF it.live
    THEN IF a.r # <<>>
         THEN Yield([a.h EXCEPT ![id].saved = Append(it.saved, a.r[1])], a.r[1])
         ELSE replay([a.h EXCEPT ![id].live = FALSE])
    ELSE replay(h)

PyNext(h, L, id, rnd) ==
    CASE h[id].kind = "listiter" -> ListIterNext(h, L, id, rnd)
      [] h[id].kind = "gen" -> GenNext(h, L, id, rnd)
      [] h[id].kind = "zip" -> ZipNext(h, L, id, rnd)
      [] h[id].kind = "chain" -> ChainNext(h, L, id, rnd)
      [] h[id].kind = "islice" -> IsliceNext(h, L, id, rnd)
      [] h[id].kind = "map" -> MapNext(h, L, id, rnd)
      [] h[id].kind = "filter" -> FilterNext(h, L, id, rnd)
      [] h[id].kind = "count" -> CountNext(h, L, id, rnd)
      [] h[id].kind = "cycle" -> CycleNext(h, L, id, rnd)

\* ---------------------------------------------------------------- cells

NoArgs == [n |-> 0, m |-> 0, start |-> 0, stop |-> 0, step |-> 0]

\* The state once the cell has built its objects: args also keeps the object
\* the cell's variable is bound to (root) and the lists as they were then.
Start(c, a, L, h, t) ==
    /\ cell = c
    /\ args = [n |-> a.n, m |-> a.m, start |-> a.start, stop |-> a.stop,
               step |-> a.step, root |-> t, orig |-> L]
    /\ lists = L
    /\ heap = h
    /\ top = t
    /\ out = <<>>
    /\ pc = "idle"
    /\ acc = <<>>
    /\ results = <<>>

\* day_name_pairs = zip(weekdays, names), names shuffled
InitZip ==
    \E n \in 0..MaxLen : \E s \in Shuffles(Take(Names, n)) :
        Start("zip", [NoArgs EXCEPT !.n = n],
              [weekdays |-> Take(Weekdays, n), names |-> s],
              <<ListIter("weekdays"), ListIter("names"), ZipOf(1, 2)>>, 3)

\* itertools.chain(first_team, second_team)
InitChain ==
    \E n \in 0..MaxLen, m \in 0..MaxLen :
        /\ n + m <= Len(Names)
        /\ Start("chain", [NoArgs EXCEPT !.n = n, !.m = m],
                 [first_team |-> SubSeq(Names, 1, n),
                  second_team |-> SubSeq(Names, n + 1, n + m)],
                 <<ListIter("first_team"), ListIter("second_team"),
                   ChainOf(1, 2)>>, 3)

\* iterator_slice = itertools.islice(numbers, start, stop)
InitIslice ==
    \E n \in 0..MaxNums, stop \in 0..MaxStop : \E start \in 0..stop :
        Start("islice", [NoArgs EXCEPT !.n = n, !.start = start, !.stop = stop],
              [numbers |-> [k \in 1..n |-> k]],
              <<ListIter("numbers"), IsliceOf(1, start, stop)>>, 2)

\* coin_toss = generate_coin_toss(n)
InitGen ==
    \E n \in 0..MaxN :
        Start("gen", [NoArgs EXCEPT !.n = n], <<>>, <<GenOf(n)>>, 1)

\* names = map(str.upper, original_names)
InitMap ==
    \E s \in SeqsUpTo({Names[k] : k \in 1..Len(Names)}, MaxLen) :
        Start("map", [NoArgs EXCEPT !.n = Len(s)], [original_names |-> s],
              <<ListIter("original_names"), MapOf("upper", 1)>>, 2)

\* names = filter(lambda x: 'A' in x, map(str.upper, original_names))
InitFilter ==
    \E s \in SeqsUpTo({Names[k] : k \in 1..Len(Names)}, MaxLen) :
        Start("filter", [NoArgs EXCEPT !.n = Len(s)], [original_names |-> s],
              <<ListIter("original_names"), MapOf("upper", 1),
                FilterOf("hasA", 2)>>, 3)

\* ... and names = filter(lambda x: len(x) == 4, names)
InitFilter2 ==
    \E s \in SeqsUpTo({Names[k] : k \in 1..Len(Names)}, MaxLen) :
        Start("filter2", [NoArgs EXCEPT !.n = Len(s)], [original_names |-> s],
              <<ListIter("original_names"), MapOf("upper", 1),
                FilterOf("hasA", 2), FilterOf("len4", 3)>>, 4)

\* quarters = itertools.count(start, step), in quarters
InitCount ==
    \E start \in 0..1, step \in -1..2 :
        Start("count", [NoArgs EXCEPT !.start = start, !.step = step], <<>>,
              <<CountOf(start, step)>>, 1)

\* rota = itertools.cycle(names)
InitCycle ==
    \E n \in 0..MaxLen :
        Start("cycle", [NoArgs EXCEPT !.n = n], [names |-> Take(Names, n)],
              <<ListIter("names"), CycleOf(1)>>, 2)

Init ==
    \/ InitZip
    \/ InitChain
    \/ InitIslice
    \/ InitGen
    \/ InitMap
    \/ InitFilter
    \/ InitFilter2
    \/ InitCount
    \/ InitCycle

\* -------------------------------------------------------------- actions

Infinite == {"count", "cycle"}

\* print(next(x)): the value is printed, or StopIteration leaves the cell.
NextCall ==
    /\ pc = "idle"
    /\ cell \notin Infinite
    /\ Len(out) < MaxCalls
    /\ \E rnd \in Coin :
        LET a == PyNext(heap, lists, top, rnd) IN
        /\ heap' = a.h
        /\ out' = Append(out, [exc |-> IF a.r = <<>> THEN "StopIteration"
                                                     ELSE "none",
                               val |-> a.r])
    /\ UNCHANGED <<cell, args, lists, top, pc, acc, results>>

\* The positions at which the list differs from what it was at the start.
Changed(name) ==
    {k \in 1..Len(lists[name]) : lists[name][k] # args.orig[name][k]}

\* names[2] = 'The Coffee Robot'
MutateNames ==
    /\ pc = "idle"
    /\ cell = "zip"
    /\ Cardinality(Changed("names")) < MaxMutations
    /\ \E k \in 1..Len(lists.names) :
        lists' = [lists EXCEPT !.names[k] = Robot]
    /\ UNCHANGED <<cell, args, heap, top, out, pc, acc, results>>

\* numbers[2] = 999
MutateNumbers ==
    /\ pc = "idle"
    /\ cell = "islice"
    /\ Cardinality(Changed("numbers")) < MaxMutations
    /\ \E k \in 1..Len(lists.numbers) :
        lists' = [lists EXCEPT !.numbers[k] = Mutated999]
    /\ UNCHANGED <<cell, args, heap, top, out, pc, acc, results>>

\* Faulty variant: list(x) starts every object over from its source.
ListStartRewinds ==
    /\ pc = "idle"
    /\ Len(results) < MaxLists
    /\ pc' = "draining"
    /\ acc' = <<>>
    /\ heap' = [k \in 1..Len(heap) |->
                 IF heap[k].kind \in {"listiter", "gen"}
                 THEN [heap[k] EXCEPT !.i = 0, !.live = TRUE]
                 ELSE heap[k]]
    /\ UNCHANGED <<cell, args, lists, top, out, results>>

\* list(x), [el for el in x], for name in x: the loop starts
ListStart ==
    /\ pc = "idle"
    /\ Len(results) < MaxLists
    /\ pc' = "draining"
    /\ acc' = <<>>
    /\ UNCHANGED <<cell, args, lists, heap, top, out, results>>

\* list(itertools.islice(x, 0, k)) over count / cycle: a new islice object
\* over the same x, and the loop over it starts
SliceStart ==
    /\ pc = "idle"
    /\ cell \in Infinite
    /\ Len(results) < MaxLists
    /\ \E k \in 0..MaxK :
        /\ heap' = Append(heap, IsliceOf(IF cell = "count" THEN 1 ELSE 2, 0, k))
        /\ top' = Len(heap) + 1
    /\ pc' = "draining"
    /\ acc' = <<>>
    /\ UNCHANGED <<cell, args, lists, out, results>>

\* One iteration of the loop of list(): next(x), and either the value is
\* appended or StopIteration ends the loop and the list is returned (the
\* islice object of list(islice(x, 0, k)) is then dropped).
ListStep ==
    /\ pc = "draining"
    /\ Len(acc) < MaxPull
    /\ \E rnd \in Coin :
        LET a == PyNext(heap, lists, top, rnd) IN
        /\ heap' = a.h
        /\ IF a.r = <<>>
           THEN /\ pc' = "idle"
                /\ results' = Append(results, acc)
                /\ acc' = <<>>
                /\ top' = args.root
           ELSE /\ acc' = Append(acc, a.r[1])
                /\ UNCHANGED <<pc, results, top>>
    /\ UNCHANGED <<cell, args, lists, out>>

Next ==
    \/ NextCall
    \/ MutateNames
    \/ MutateNumbers
    \/ ListStart
    \/ SliceStart
    \/ ListStep

Spec == Init /\ [][Next]_vars

\* ----------------------------------------------------------- properties

RECURSIVE Flatten(_)
Flatten(ss) == IF ss = <<>> THEN <<>> ELSE Head(ss) \o Flatten(Tail(ss))

IsPrefix(s, t) == Len(s) <= Len(t) /\ SubSeq(t, 1, Len(s)) = s

\* The values the print(next(x)) statements printed, in order.
Printed ==
    LET ok == SelectSeq(out, LAMBDA e : e.exc = "none")
    IN [k \in 1..Len(ok) |-> ok[k].val[1]]

\* Every value pulled so far, in the order it was pulled.  In the cells over
\* a finite source next() returns no value once a list() has completed; in
\* the cells over count / cycle every value is pulled by a list().
Produced == Printed \o Flatten(results) \o acc

\* The end of the sequence has been signalled to the cell.
Signalled ==
    \/ Len(results) >= 1
    \/ \E j \in 1..Len(out) : out[j].exc = "StopIteration"

\* No list() has been started: every pull so far is a print(next(x)).
OnlyNextCalls == results = <<>> /\ pc = "idle"

\* What the notebook's output cells show for str.upper and the two lambdas.
ShownUpper(x) ==
    CASE x = Sarah -> <<"S", "A", "R", "A", "H">>
      [] x = Matt -> <<"M", "A", "T", "T">>
      [] x = Jim -> <<"J", "I", "M">>
      [] x = Denise -> <<"D", "E", "N", "I", "S", "E">>
      [] x = Kate -> <<"K", "A", "T", "E">>
ShownWithA == {Sarah, Matt, Kate}
ShownWithAOfLen4 == {Matt, Kate}

Kept(x) ==
    CASE cell = "map" -> TRUE
      [] cell = "filter" -> x \in ShownWithA
      [] cell = "filter2" -> x \in ShownWithAOfLen4

\* The list the map / filter cell is expected to give for its source.
ExpectedNames ==
    LET kept == SelectSeq(args.orig.original_names, Kept)
    IN [k \in 1..Len(kept) |-> ShownUpper(kept[k])]

\* The number of values the cell's finite sequence holds.
TotalLen ==
    CASE cell = "zip" -> args.n
      [] cell = "chain" -> args.n + args.m
      [] cell = "islice" ->
            IF Min(args.stop, args.n) > args.start
            THEN Min(args.stop, args.n) - args.start ELSE 0
      [] cell = "gen" -> args.n
      [] cell \in {"map", "filter", "filter2"} -> Len(ExpectedNames)
      [] OTHER -> 0

\* C1: over a finite sequence of length n, exactly the first n calls of
\* next() return a value, call n+1 signals the end, and so does every later
\* call (the signal being StopIteration).
C1_ExactlyNValues ==
    (cell \notin Infinite /\ OnlyNextCalls) =>
        \A j \in 1..Len(out) : (out[j].exc = "none") <=> (j <= TotalLen)

C1_Witness ==
    /\ cell = "gen"
    /\ args.n >= 2
    /\ OnlyNextCalls
    /\ Len(out) >= args.n + 2

\* C2 as stated: a call of next() on an exhausted finite sequence never
\* raises; it returns, and the sequence stays exhausted.
C2_ReturnsExhaustedValue ==
    (cell \notin Infinite /\ OnlyNextCalls) =>
        \A j \in 1..Len(out) : j > TotalLen => out[j].exc = "none"

\* C2 amended: every call of next() on an exhausted finite sequence raises
\* StopIteration and returns nothing, and it leaves the sequence exhausted:
\* one more call would raise again and change no object.
C2_RaisesStopIteration ==
    (cell \notin Infinite /\ OnlyNextCalls) =>
        /\ \A j \in 1..Len(out) :
               j > TotalLen => out[j] = [exc |-> "StopIteration", val |-> <<>>]
        /\ Len(out) > TotalLen => PyNext(heap, lists, top, "H") = Stop(heap)

C2_Witness ==
    /\ cell = "gen"
    /\ args.n >= 1
    /\ OnlyNextCalls
    /\ Len(out) >= args.n + 2
    /\ out[Len(out)].exc = "StopIteration"
    /\ out[Len(out) - 1].exc = "StopIteration"

\* C3: chain(A, B) gives A's values in A's order and then B's in B's order,
\* len(A) + len(B) values in all, and the chain is exhausted exactly when
\* both A and B are.
C3_ChainOrder ==
    cell = "chain" =>
        /\ IsPrefix(Produced, args.orig.first_team \o args.orig.second_team)
        /\ Signalled => Len(Produced) = args.n + args.m
        /\ ~heap[3].live <=> (~heap[1].live /\ ~heap[2].live)
        /\ heap[2].i > 0 => ~heap[1].live

C3_Witness ==
    /\ cell = "chain"
    /\ args.n = 2
    /\ args.m = 1
    /\ Len(Printed) = 3
    /\ Len(out) = 4
    /\ ~heap[3].live

\* C4: with 0 <= start <= stop over a source of n values, slice(seq, start,
\* stop) discards the first min(start, n) values, gives the values at
\* positions start .. min(stop, n) - 1 in order, at most stop - start of
\* them, and then is exhausted, having pulled min(stop, n) values.
C4_SliceWindow ==
    cell = "islice" =>
        /\ Len(Produced) <= args.stop - args.start
        /\ lists = args.orig =>
               IsPrefix(Produced,
                        SubSeq(lists.numbers, args.start + 1,
                               Min(args.stop, args.n)))
        /\ (Produced # <<>> \/ Signalled) => heap[1].i >= Min(args.start, args.n)
        /\ Signalled =>
               /\ Len(Produced) = TotalLen
               /\ heap[1].i = Min(args.stop, args.n)
               /\ PyNext(heap, lists, 2, "H") = Stop(heap)

C4_Witness ==
    /\ cell = "islice"
    /\ args.n = 3
    /\ args.start = 1
    /\ args.stop = 5
    /\ Produced = <<2, 3>>
    /\ Len(results) >= 1

\* The element a zip / islice cell reads for its k-th value, as the lists
\* are now.
LiveAt(k) ==
    IF cell = "zip"
    THEN <<lists.weekdays[k], lists.names[k]>>
    ELSE lists.numbers[args.start + k]

\* One step of a zip / islice cell: a value pulled is the list's element as
\* the list is when it is pulled, and a mutation changes no value pulled.
ReadsAtPull ==
    cell \in {"zip", "islice"} =>
        /\ IsPrefix(Produced, Produced')
        /\ Len(Produced') > Len(Produced) =>
               Produced'[Len(Produced')] = LiveAt(Len(Produced'))
        /\ lists' # lists => Produced' = Produced

\* C5: a value is read from the list when it is pulled, not when the
\* sequence was constructed: each value pulled is the list's element as the
\* list is at that moment, and a mutation changes no value already pulled.
C5_NoSnapshot == [][ReadsAtPull]_vars

C5_Witness ==
    /\ cell = "islice"
    /\ args.n = 5
    /\ args.start = 1
    /\ args.stop = 4
    /\ results = << <<2, Mutated999, 4>> >>

\* A list() without a limit is running over the count / cycle itself.
DirectList == cell \in Infinite /\ pc = "draining" /\ top = args.root

\* The values of count(start, step) at positions 0 .. n-1.
CountValues(n) == [j \in 1..n |-> args.start + (j - 1) * args.step]

\* The islice objects the count / cycle cell has made, in order.
Slices == SubSeq(heap, args.root + 1, Len(heap))

\* No list returned by a later list() holds a value of an earlier one.
NoRepeatAcross(rs) ==
    \A a, b \in 1..Len(rs) :
        a < b => \A j \in 1..Len(rs[a]), k \in 1..Len(rs[b]) : rs[a][j] # rs[b][k]

C7_CycleWraps ==
    (cell = "cycle" /\ args.n >= 1) =>
        /\ \A k \in 1..Len(Produced) :
               Produced[k] = args.orig.names[((k - 1) % args.n) + 1]
        /\ \A j \in 1..Len(results) : Len(results[j]) = Slices[j].stop
        /\ PyNext(heap, lists, 2, "H").r # <<>>

C7_Witness ==
    /\ cell = "cycle"
    /\ args.n = 2
    /\ Len(Produced) >= 5
    /\ Len(results) = 2

\* count, or cycle over a non-empty collection
Endless == cell = "count" \/ (cell = "cycle" /\ args.n >= 1)

\* C8 as stated: a list() without a limit over an infinite sequence takes no
\* value from it.
C8_UnboundedListConsumesNothing ==
    (Endless /\ DirectList) => acc = <<>>

\* C8 amended: a list() without a limit over an infinite sequence is not
\* refused: it pulls one value after another and never returns; only the
\* list() calls over an islice of the sequence return.
C8_UnboundedListKeepsPulling ==
    Endless =>
        /\ Len(results) + (IF pc = "draining" /\ top # args.root THEN 1 ELSE 0)
               = Len(Slices)
        /\ DirectList => PyNext(heap, lists, top, "H").r # <<>>
        /\ cell = "count" => heap[1].i = args.start + Len(Produced) * args.step
        /\ (cell = "cycle" /\ ~heap[2].live) => heap[2].i = Len(Produced) % args.n

C8_Witness ==
    /\ cell = "count"
    /\ DirectList
    /\ Len(acc) >= 4

\* C9: filter(q, filter(p, map(fn, S))) gives, in the order of S, fn(v) for
\* exactly the v of S whose fn(v) passes p and q; a rejected value never
\* appears; without a filter it is fn of every element.
C9_MapFilter ==
    cell \in {"map", "filter", "filter2"} =>
        /\ IsPrefix(Produced, ExpectedNames)
        /\ Signalled => Produced = ExpectedNames

C9_Witness ==
    /\ cell = "filter2"
    /\ args.orig.original_names = <<Sarah, Jim, Kate>>
    /\ results = << <<ShownUpper(Kate)>> >>

\* C10: after k calls of next() on a sequence of n values, list() gives the
\* remaining n - k values in order and none of the k already returned; a
\* second list() gives nothing.
C10_SinglePass ==
    (cell \in {"gen", "map"} /\ Len(results) >= 1) =>
        /\ Len(Printed) + Len(results[1]) = args.n
        /\ cell = "map" => Printed \o results[1] = ExpectedNames
        /\ \A j \in 2..Len(results) : results[j] = <<>>

C10_Witness ==
    /\ cell = "map"
    /\ args.orig.original_names = <<Sarah, Matt, Jim>>
    /\ Len(Printed) = 1
    /\ results = << <<ShownUpper(Matt), ShownUpper(Jim)>> >>

====
